---- MODULE Spec2Model ----
(***************************************************************************)
(* Model of src/ether.js: a websocket feed of pending transaction hashes   *)
(* fills pendingQueue; processPendingQueue resolves each hash through      *)
(* safeGetTransaction and, when the recipient is the monitored address,    *)
(* pushes it to forwardQueue; processForwardQueue sweeps the balance.      *)
(*                                                                         *)
(* Every `await` of the source is a suspension point: an invocation of an  *)
(* async function is a record whose pc names the await it is suspended at. *)
(* Invocations have no identity, so the suspended ones form a bag.  The    *)
(* code between two awaits runs atomically (one JavaScript job), so each   *)
(* action below is one such job.                                           *)
(*                                                                         *)
(* Time: Date.now() is only ever used as `now - lastPendingProcessTime`    *)
(* compared with 2000, and timers only by their delay, so the model keeps  *)
(* the elapsed time since lastPendingProcessTime (saturated at 2000) and   *)
(* the remaining time of every timer.  The clock advances in steps of      *)
(* TickLen and stands still while a timer is due: due callbacks and        *)
(* settling chain-client calls run in any order within one instant.        *)
(*                                                                         *)
(* Amounts are in gwei (10^9 wei) so that they fit TLC's 32-bit integers:  *)
(* balances are multiples of 1 gwei and gas prices multiples of 1 gwei per *)
(* gas, which keeps balance - gasPrice * 21000 exact.                      *)
(***************************************************************************)
EXTENDS Integers, Sequences, FiniteSets, Bags, TLC

(* ------------------------------ bounds --------------------------------- *)
\* number of "pending" events the feed delivers in one behaviour
MaxPushes == 3
\* number of failed lookups (throw or no record) the chain client produces
MaxFails == 1
\* the same two budgets where one safeGetTransaction call is followed through
\* all of its retries
FetchPushes == 2
FetchFails == 5
\* lookups the chain client answers after 100 hashes were delivered while
\* the first lookup was outstanding
IngestAnswers == 2
\* granularity of the clock
TickLen == 500
\* events (error, close) the websocket raises in a behaviour that has any,
\* and the number of "pending" events the feed delivers in such a behaviour
MaxWsEvents == 2
WsPushes == 2
\* number of "pending" events the feed delivers where the program is
\* followed until it comes to rest with every lookup succeeding (three make
\* two drain loops run at once)
LivePushes == 3

(* ------------------------- program constants --------------------------- *)
QUEUE_CAPACITY == 100
MIN_INTERVAL == 2000
ITEM_DELAY == 500
FORWARD_DELAY == 1000
RETRIES == 5
BASE_DELAY == 1500
GAS_LIMIT == 21000
\* ethers.utils.parseEther("0.0001") = 10^14 wei = 100000 gwei
DUST_THRESHOLD == 100000
EXIT_DELAY == 3000

NoTimer == 0 - 1

VARIABLES
  pendingQueue,       \* const pendingQueue = []
  forwardQueue,       \* const forwardQueue = []
  processingPending,  \* let processingPending = false
  processingForward,  \* let processingForward = false
  sinceLast,          \* min(Date.now() - lastPendingProcessTime, 2000)
  pend,               \* the suspended invocations of processPendingQueue
  fwd,                \* the suspended invocations of processForwardQueue
  ws,                 \* provider._websocket: "open", "errored", "closed"
  closeTimer,         \* remaining time of the close handler's setTimeout
  exited,             \* process.exit(1) was called
  wsLeft,             \* events the websocket may still raise
  pushesLeft,         \* "pending" events the feed may still deliver
  failsLeft,          \* failed lookups the chain client may still produce
  answersLeft,        \* lookups the chain client may still settle
  nextHash,           \* the hash the feed delivers next
  fwdExit,            \* processForwardQueue's cycle: "running", "signalled"
                      \* (running, and called again meanwhile), or how it
                      \* last left its loop ("empty", "dust", "gas")
  tally               \* what happened to forwardQueue so far: the hashes
                      \* pushed (line 59), the sendTransaction calls made
                      \* (line 90), and the entries shifted (line 108) since
                      \* the latest of these calls

vars == <<pendingQueue, forwardQueue, processingPending, processingForward,
          sinceLast, pend, fwd, ws, closeTimer, exited, wsLeft, pushesLeft,
          failsLeft, answersLeft, nextHash, fwdExit, tally>>


Min(a, b) == IF a < b THEN a ELSE b

(* ----------------------------- addresses ------------------------------- *)
\* Addresses are sequences of characters; <<>> stands for a null `to`.
NoAddress == <<>>

LowerChar(c) ==
  CASE c = "A" -> "a"
    [] c = "B" -> "b"
    [] c = "C" -> "c"
    [] OTHER -> c

\* String.prototype.toLowerCase
ToLowerCase(s) == [k \in 1..Len(s) |-> LowerChar(s[k])]

\* process.env.MONITORED_ADDRESS as configured (checksummed, mixed case)
EnvMonitoredAddress == <<"A", "b", "C">>

MONITORED_ADDRESS == ToLowerCase(EnvMonitoredAddress)

\* the recipients a resolved transaction can carry
\* (ethers returns them checksummed, that is in mixed case)
Recipients == { <<"A", "b", "C">>, <<"a", "B", "C">>, <<"A", "b", "B">>,
                <<"A", "b">>, NoAddress }

(* the outcomes of provider.getTransaction: a record, no record, a throw *)
Lookups == [kind : {"tx"}, to : Recipients]
             \cup { [kind |-> "null", to |-> NoAddress],
                    [kind |-> "throw", to |-> NoAddress] }

(* the outcomes of provider.getBalance / getGasPrice: a value or a throw *)
Throw == 0 - 1
Balances == {100000, 210000, 1000000}
GasPrices == {10, 50}

(* --------------------------- invocations ------------------------------- *)
\* an invocation of processPendingQueue: pc is the await it is suspended at
\*   "gate"    line 47, the rate-gate setTimeout
\*   "fetch"   line 30, provider.getTransaction (inside safeGetTransaction)
\*   "backoff" line 35, the retry setTimeout (inside safeGetTransaction)
\*   "sleep"   line 66, the inter-item setTimeout
\* txHash and i are the locals txHash and i, cleared once the code no longer
\* reads them.  lookups and failed count the getTransaction calls made and
\* failed by the latest safeGetTransaction call, and result tells how it
\* ended ("tx": it returned a record, "notfound": it threw at line 37).
NewP == [pc |-> "new", txHash |-> 0, i |-> 0, timer |-> 0,
         lookups |-> 0, failed |-> 0, result |-> "none"]

AtGate(wait) == [NewP EXCEPT !.pc = "gate", !.timer = wait]
AtFetch(h) == [NewP EXCEPT !.pc = "fetch", !.txHash = h, !.lookups = 1]
AtSleep(lookups, failed, result) ==
  [NewP EXCEPT !.pc = "sleep", !.timer = ITEM_DELAY, !.lookups = lookups,
               !.failed = failed, !.result = result]

\* an invocation of processForwardQueue: pc is the await it is suspended at
\*   "balance"  line 79, provider.getBalance
\*   "gasPrice" line 81, provider.getGasPrice
\*   "send"     line 90, wallet.sendTransaction
\*   "sleep"    line 110, the inter-item setTimeout
\* balance, gasPrice, value are the locals balance, gasPrice, valueToSend,
\* cleared once the code no longer reads them.  sends and pops count the
\* sendTransaction calls and the forwardQueue.shift() calls this invocation
\* has made, and outcome tells how its latest iteration ended ("sent": the
\* submission settled, "failed": it threw, "skipped": a read threw).
NewF == [pc |-> "new", balance |-> 0, gasPrice |-> 0, value |-> 0,
         timer |-> 0, sends |-> 0, pops |-> 0, outcome |-> "none"]

AtBalance == [NewF EXCEPT !.pc = "balance"]
AtForwardSleep == [NewF EXCEPT !.pc = "sleep", !.timer = FORWARD_DELAY]

One(r) == SetToBag({r})

\* no sendTransaction call has been made yet
NoSend == 0 - 1

NoTally == [pushed |-> 0, sent |-> 0, sinceSend |-> NoSend]

\* line 59: forwardQueue.push(txHash)
TallyPush(t) == [t EXCEPT !.pushed = @ + 1]

\* line 90: wallet.sendTransaction is called
TallySend(t) == [t EXCEPT !.sent = @ + 1, !.sinceSend = 0]

\* line 108: forwardQueue.shift() removes an entry (k = 1) or finds none
TallyShift(t, k) ==
  [t EXCEPT !.sinceSend = IF @ = NoSend THEN NoSend ELSE @ + k]

DrainPcs == {"fetch", "backoff", "sleep"}
ForwardPcs == {"balance", "gasPrice", "send", "sleep"}

\* the number of invocations in bag b whose pc is in pcs
RECURSIVE SumCopies(_, _)
SumCopies(S, b) ==
  IF S = {} THEN 0
  ELSE LET r == CHOOSE x \in S : TRUE
       IN  CopiesIn(r, b) + SumCopies(S \ {r}, b)

CountAt(b, pcs) == SumCopies({r \in BagToSet(b) : r.pc \in pcs}, b)

(* ------------------------- decisions of the code ----------------------- *)
\* (a faulty variant: the capacity test is off by one)
QueueFullLate(q) == Len(q) > QUEUE_CAPACITY

\* line 118: pendingQueue.length >= 100
QueueFull(q) == Len(q) >= QUEUE_CAPACITY

\* (a faulty variant: a full queue drops its newest entry instead of its oldest)
PushPendingDropNewest(q, h) ==
  Append(IF QueueFull(q) THEN SubSeq(q, 1, Len(q) - 1) ELSE q, h)

\* (a faulty variant: the new hash goes to the front of the queue)
PushPendingFront(q, h) == <<h>> \o (IF QueueFull(q) THEN Tail(q) ELSE q)

\* lines 118-123: shift the oldest when full, then push
PushPending(q, h) == Append(IF QueueFull(q) THEN Tail(q) ELSE q, h)

\* (a faulty variant: a call made while the rate gate is closed returns as
\* well, instead of waiting)
PendingBusyOrGated == processingPending \/ sinceLast < MIN_INTERVAL

\* line 42: if (processingPending) return
PendingBusy == processingPending

\* line 45: now - lastPendingProcessTime < 2000
GateClosed == sinceLast < MIN_INTERVAL

\* line 47: 2000 - (now - lastPendingProcessTime)
GateWait == MIN_INTERVAL - sinceLast

\* (a faulty variant: the guard is missing)
ForwardNeverBusy == FALSE

\* line 74: if (processingForward) return
ForwardBusy == processingForward

\* (a faulty variant: a lookup that resolves to no record is returned as well)
FoundOrNull(r) == r.kind # "throw"

\* line 31: if (tx) return tx
Found(r) == r.kind = "tx"

\* (a faulty variant: the loop gives up one attempt early)
RetriesLeftShort(i) == i < RETRIES - 1

\* line 28: i < retries
RetriesLeft(i) == i < RETRIES

\* (a faulty variant: the delay grows linearly)
BackoffLinear(i) == BASE_DELAY * (i + 1)

\* line 35: delay * Math.pow(2, i)
BackoffDelay(i) == BASE_DELAY * (2 ^ i)

\* (a faulty variant: the recipient is compared without lower-casing it)
MatchesExactly(to) == to # NoAddress /\ to = MONITORED_ADDRESS

\* line 57: tx && tx.to && tx.to.toLowerCase() === MONITORED_ADDRESS
Matches(to) == to # NoAddress /\ ToLowerCase(to) = MONITORED_ADDRESS

\* (a faulty variant: gte instead of gt)
AtLeastDust(b) == b >= DUST_THRESHOLD

\* line 80: balance.gt(parseEther("0.0001"))
AboveDust(b) == b > DUST_THRESHOLD

\* line 83: balance.sub(gasPrice.mul(gasLimit))
ValueToSend(b, g) == b - g * GAS_LIMIT

\* (a faulty variant: lt instead of lte)
CannotCoverGasStrict(v) == v < 0

\* line 85: valueToSend.lte(0)
CannotCoverGas(v) == v <= 0

\* (a faulty variant: the shift is missing)
ShiftNothing(q) == q

\* Array.prototype.shift on a queue that may be empty
Shift(q) == IF Len(q) > 0 THEN Tail(q) ELSE q

(* --------------------------- loop heads -------------------------------- *)
\* lines 53-56 and 69: the head of processPendingQueue's while loop, run by
\* one invocation beside the suspended invocations others, with the queue
\* holding q and the flag holding flag
PendingLoop(others, q, flag) ==
  IF Len(q) > 0
  THEN /\ pendingQueue' = Tail(q)
       /\ pend' = others (+) One(AtFetch(Head(q)))
       /\ processingPending' = flag
  ELSE /\ pendingQueue' = q
       /\ pend' = others
       /\ processingPending' = FALSE

\* (a faulty variant: the loop ends when one entry is left)
ForwardLoopLeavesLast(me, others, fq, flag) ==
  IF Len(fq) > 1
  THEN /\ fwd' = others (+)
                  One([AtBalance EXCEPT !.sends = me.sends, !.pops = me.pops])
       /\ processingForward' = flag
       /\ fwdExit' = IF flag = processingForward THEN fwdExit ELSE "running"
  ELSE /\ fwd' = others
       /\ processingForward' = FALSE
       /\ fwdExit' = "empty"

\* lines 77-79 and 113: the head of processForwardQueue's while loop, run
\* by invocation me
ForwardLoop(me, others, fq, flag) ==
  IF Len(fq) > 0
  THEN /\ fwd' = others (+)
                  One([AtBalance EXCEPT !.sends = me.sends, !.pops = me.pops])
       /\ processingForward' = flag
       /\ fwdExit' = IF flag = processingForward THEN fwdExit ELSE "running"
  ELSE /\ fwd' = others
       /\ processingForward' = FALSE
       /\ fwdExit' = "empty"

\* lines 73-79: processForwardQueue() up to its first await, the queue
\* already holding fq
ProcessForwardQueue(fq) ==
  IF ForwardBusy
  THEN /\ fwdExit' = "signalled"
       /\ UNCHANGED <<fwd, processingForward>>
  ELSE ForwardLoop(NewF, fwd, fq, TRUE)

\* lines 41-56: processPendingQueue() up to its first await, the queue
\* already holding q
ProcessPendingQueue(q) ==
  IF PendingBusy
  THEN /\ pendingQueue' = q
       /\ UNCHANGED <<pend, processingPending, sinceLast>>
  ELSE IF GateClosed
  THEN /\ pendingQueue' = q
       /\ pend' = pend (+) One(AtGate(GateWait))
       /\ UNCHANGED <<processingPending, sinceLast>>
  ELSE /\ sinceLast' = 0
       /\ PendingLoop(pend, q, TRUE)

(* ------------------------------ actions -------------------------------- *)
\* lines 117-126: provider.on("pending", txHash => ...)
\* Hashes are opaque to the code (stored, passed on and logged, never
\* compared), so the feed delivers them numbered by arrival.
OnPending(h) ==
  /\ ~exited
  /\ ws # "closed"
  /\ pushesLeft > 0
  /\ h = nextHash
  /\ pushesLeft' = pushesLeft - 1
  /\ nextHash' = nextHash + 1
  /\ ProcessPendingQueue(PushPending(pendingQueue, h))
  /\ UNCHANGED <<forwardQueue, processingForward, fwd, ws, closeTimer,
                 exited, wsLeft, failsLeft, answersLeft, fwdExit, tally>>

\* lines 47-56: the rate-gate timer of invocation r fires
GateDone(r) ==
  /\ ~exited
  /\ r.pc = "gate"
  /\ r.timer = 0
  /\ sinceLast' = 0
  /\ PendingLoop(pend (-) One(r), pendingQueue, TRUE)
  /\ UNCHANGED <<forwardQueue, processingForward, fwd, ws, closeTimer,
                 exited, wsLeft, pushesLeft, failsLeft, answersLeft, nextHash,
                 fwdExit, tally>>

\* lines 30-35 and 57-66: provider.getTransaction of invocation r settles
\* with outcome o
GetTransactionDone(r, o) ==
  /\ ~exited
  /\ r.pc = "fetch"
  /\ answersLeft > 0
  /\ o.kind # "tx" => failsLeft > 0
  /\ answersLeft' = answersLeft - 1
  /\ failsLeft' = IF o.kind # "tx" THEN failsLeft - 1 ELSE failsLeft
  /\ IF Found(o)
     THEN /\ pend' = (pend (-) One(r)) (+)
                       One(AtSleep(r.lookups,
                                   r.failed + (IF o.kind # "tx" THEN 1 ELSE 0),
                                   "tx"))
          /\ IF Matches(o.to)
             THEN /\ forwardQueue' = Append(forwardQueue, r.txHash)
                  /\ tally' = TallyPush(tally)
                  /\ ProcessForwardQueue(forwardQueue')
             ELSE UNCHANGED <<forwardQueue, fwd, processingForward, fwdExit,
                              tally>>
     ELSE /\ pend' = (pend (-) One(r)) (+)
                       One([r EXCEPT !.pc = "backoff",
                                     !.timer = BackoffDelay(r.i),
                                     !.failed = @ + 1])
          /\ UNCHANGED <<forwardQueue, fwd, processingForward, fwdExit,
                         tally>>
  /\ UNCHANGED <<pendingQueue, processingPending, sinceLast, ws, closeTimer,
                 exited, wsLeft, pushesLeft, nextHash>>

\* (a faulty variant: the throw of line 37 is not caught, so it ends the
\* invocation inside its loop, the flag still set)
BackoffDoneFatal(r) ==
  /\ ~exited
  /\ r.pc = "backoff"
  /\ r.timer = 0
  /\ IF RetriesLeft(r.i + 1)
     THEN pend' = (pend (-) One(r)) (+)
                    One([r EXCEPT !.pc = "fetch", !.i = @ + 1,
                                  !.lookups = @ + 1])
     ELSE pend' = pend (-) One(r)
  /\ UNCHANGED <<pendingQueue, forwardQueue, processingPending,
                 processingForward, sinceLast, fwd, ws, closeTimer, exited,
                 wsLeft, pushesLeft, failsLeft, answersLeft, nextHash,
                 fwdExit, tally>>

\* lines 35-37, 28-30 and 62-66: the backoff timer of invocation r fires;
\* i++, then either the next lookup or the throw that processPendingQueue
\* catches
BackoffDone(r) ==
  /\ ~exited
  /\ r.pc = "backoff"
  /\ r.timer = 0
  /\ IF RetriesLeft(r.i + 1)
     THEN pend' = (pend (-) One(r)) (+)
                    One([r EXCEPT !.pc = "fetch", !.i = @ + 1,
                                  !.lookups = @ + 1])
     ELSE pend' = (pend (-) One(r)) (+)
                    One(AtSleep(r.lookups, r.failed, "notfound"))
  /\ UNCHANGED <<pendingQueue, forwardQueue, processingPending,
                 processingForward, sinceLast, fwd, ws, closeTimer, exited,
                 wsLeft,
                 pushesLeft, failsLeft, answersLeft, nextHash, fwdExit,
                 tally>>

\* lines 66, 53-56 and 69: the inter-item timer of invocation r fires
SleepDone(r) ==
  /\ ~exited
  /\ r.pc = "sleep"
  /\ r.timer = 0
  /\ PendingLoop(pend (-) One(r), pendingQueue, processingPending)
  /\ UNCHANGED <<forwardQueue, processingForward, sinceLast, fwd, ws,
                 closeTimer, exited, wsLeft, pushesLeft, failsLeft,
                 answersLeft, nextHash, fwdExit, tally>>

\* lines 105-110: the end of an iteration of processForwardQueue's loop,
\* which ended with outcome
ForwardItemDone(r, outcome) ==
  LET k == Len(forwardQueue) - Len(Shift(forwardQueue))
  IN  /\ forwardQueue' = Shift(forwardQueue)
      /\ fwd' = (fwd (-) One(r)) (+)
                  One([AtForwardSleep EXCEPT !.sends = r.sends,
                                             !.pops = r.pops + k,
                                             !.outcome = outcome])
      /\ tally' = TallyShift(tally, k)
      /\ UNCHANGED <<processingForward, fwdExit>>

\* (a faulty variant: a return in place of the break, which skips line 113)
ForwardReturn(r, why) ==
  /\ fwd' = fwd (-) One(r)
  /\ fwdExit' = why
  /\ UNCHANGED <<forwardQueue, processingForward, tally>>

\* lines 87/103 and 113: break, then processingForward = false
ForwardBreak(r, why) ==
  /\ fwd' = fwd (-) One(r)
  /\ processingForward' = FALSE
  /\ fwdExit' = why
  /\ UNCHANGED <<forwardQueue, tally>>

\* lines 79-81 and 101-110: provider.getBalance of invocation r settles
\* with b
GetBalanceDone(r, b) ==
  /\ ~exited
  /\ r.pc = "balance"
  /\ IF b = Throw
     THEN ForwardItemDone(r, "skipped")
     ELSE IF AboveDust(b)
     THEN /\ fwd' = (fwd (-) One(r)) (+)
                      One([r EXCEPT !.pc = "gasPrice", !.balance = b])
          /\ UNCHANGED <<forwardQueue, processingForward, fwdExit, tally>>
     ELSE ForwardBreak(r, "dust")
  /\ UNCHANGED <<pendingQueue, processingPending, sinceLast, pend, ws,
                 closeTimer, exited, wsLeft, pushesLeft, failsLeft,
                 answersLeft, nextHash>>

\* lines 81-90 and 105-110: provider.getGasPrice of invocation r settles
\* with g
GetGasPriceDone(r, g) ==
  /\ ~exited
  /\ r.pc = "gasPrice"
  /\ IF g = Throw
     THEN ForwardItemDone(r, "skipped")
     ELSE IF CannotCoverGas(ValueToSend(r.balance, g))
     THEN ForwardBreak(r, "gas")
     ELSE /\ fwd' = (fwd (-) One(r)) (+)
                      One([r EXCEPT !.pc = "send", !.gasPrice = g,
                                    !.value = ValueToSend(r.balance, g),
                                    !.sends = @ + 1])
          /\ tally' = TallySend(tally)
          /\ UNCHANGED <<forwardQueue, processingForward, fwdExit>>
  /\ UNCHANGED <<pendingQueue, processingPending, sinceLast, pend, ws,
                 closeTimer, exited, wsLeft, pushesLeft, failsLeft,
                 answersLeft, nextHash>>

\* (a faulty variant: a submission that throws is made again at once)
SendTransactionRetried(r, ok) ==
  /\ ~exited
  /\ r.pc = "send"
  /\ IF ok
     THEN ForwardItemDone(r, "sent")
     ELSE /\ fwd' = (fwd (-) One(r)) (+) One([r EXCEPT !.sends = @ + 1])
          /\ tally' = TallySend(tally)
          /\ UNCHANGED <<forwardQueue, processingForward, fwdExit>>
  /\ UNCHANGED <<pendingQueue, processingPending, sinceLast, pend, ws,
                 closeTimer, exited, wsLeft, pushesLeft, failsLeft,
                 answersLeft, nextHash>>

\* (a faulty variant: a submission that throws ends the cycle, as a break)
SendTransactionFatal(r, ok) ==
  /\ ~exited
  /\ r.pc = "send"
  /\ IF ok THEN ForwardItemDone(r, "sent") ELSE ForwardBreak(r, "failed")
  /\ UNCHANGED <<pendingQueue, processingPending, sinceLast, pend, ws,
                 closeTimer, exited, wsLeft, pushesLeft, failsLeft,
                 answersLeft, nextHash>>

\* lines 90-110: wallet.sendTransaction of invocation r settles (ok) or
\* throws (~ok)
SendTransactionDone(r, ok) ==
  /\ ~exited
  /\ r.pc = "send"
  /\ ForwardItemDone(r, IF ok THEN "sent" ELSE "failed")
  /\ UNCHANGED <<pendingQueue, processingPending, sinceLast, pend, ws,
                 closeTimer, exited, wsLeft, pushesLeft, failsLeft,
                 answersLeft, nextHash>>

\* lines 110, 77-79 and 113: the forward inter-item timer of r fires
ForwardSleepDone(r) ==
  /\ ~exited
  /\ r.pc = "sleep"
  /\ r.timer = 0
  /\ ForwardLoop(r, fwd (-) One(r), forwardQueue, processingForward)
  /\ UNCHANGED <<pendingQueue, forwardQueue, processingPending, sinceLast,
                 pend, ws, closeTimer, exited, wsLeft, pushesLeft, failsLeft,
                 answersLeft, nextHash, tally>>

\* lines 129-131: the websocket's 'error' handler only logs
OnWsError ==
  /\ ~exited
  /\ ws = "open"
  /\ wsLeft > 0
  /\ wsLeft' = wsLeft - 1
  /\ ws' = "errored"
  /\ UNCHANGED <<pendingQueue, forwardQueue, processingPending,
                 processingForward, sinceLast, pend, fwd, closeTimer, exited,
                 pushesLeft, failsLeft, answersLeft, nextHash, fwdExit, tally>>

\* lines 137-139: the timer the close handler arms
ExitTimer == EXIT_DELAY

\* lines 134-140: the websocket's 'close' handler
OnWsClose ==
  /\ ~exited
  /\ ws # "closed"
  /\ wsLeft > 0
  /\ wsLeft' = wsLeft - 1
  /\ ws' = "closed"
  /\ closeTimer' = ExitTimer
  /\ UNCHANGED <<pendingQueue, forwardQueue, processingPending,
                 processingForward, sinceLast, pend, fwd, exited,
                 pushesLeft, failsLeft, answersLeft, nextHash, fwdExit, tally>>

\* lines 137-139: the exit timer fires, process.exit(1)
ExitTimerDone ==
  /\ ~exited
  /\ closeTimer = 0
  /\ exited' = TRUE
  /\ closeTimer' = NoTimer
  /\ UNCHANGED <<pendingQueue, forwardQueue, processingPending,
                 processingForward, sinceLast, pend, fwd, ws, wsLeft,
                 pushesLeft, failsLeft, answersLeft, nextHash, fwdExit, tally>>

(* -------------------------------- time --------------------------------- *)
Remaining(t) == IF t > TickLen THEN t - TickLen ELSE 0

Aged(r) == [r EXCEPT !.timer = Remaining(@)]

\* every invocation of bag b, its timer TickLen closer to its deadline
AgedBag(b) ==
  LET old == BagToSet(b)
  IN  [a \in {Aged(r) : r \in old} |->
         SumCopies({r \in old : Aged(r) = a}, b)]

TimedPcs == {"gate", "backoff", "sleep"}

\* a timer whose deadline has come and whose callback has not run yet
TimerDue ==
  \/ \E r \in BagToSet(pend) : r.pc \in TimedPcs /\ r.timer = 0
  \/ \E r \in BagToSet(fwd) : r.pc \in TimedPcs /\ r.timer = 0
  \/ closeTimer = 0

\* the clock advances by TickLen
AdvanceTime ==
  /\ ~exited
  /\ ~TimerDue
  /\ pend' = AgedBag(pend)
  /\ fwd' = AgedBag(fwd)
  /\ closeTimer' = IF closeTimer = NoTimer THEN NoTimer
                   ELSE Remaining(closeTimer)
  /\ sinceLast' = Min(MIN_INTERVAL, sinceLast + TickLen)
  /\ UNCHANGED <<pendingQueue, forwardQueue, processingPending,
                 processingForward, ws, exited, wsLeft, pushesLeft, failsLeft,
                 answersLeft, nextHash, fwdExit, tally>>

(* --------------------------- specification ----------------------------- *)
\* the state after the module has loaded: lastPendingProcessTime = 0, so
\* Date.now() - lastPendingProcessTime is far above 2000
InitWith(pushes, fails, answers, wsEvents) ==
  /\ pendingQueue = <<>>
  /\ forwardQueue = <<>>
  /\ processingPending = FALSE
  /\ processingForward = FALSE
  /\ sinceLast = MIN_INTERVAL
  /\ pend = EmptyBag
  /\ fwd = EmptyBag
  /\ ws = "open"
  /\ closeTimer = NoTimer
  /\ exited = FALSE
  /\ wsLeft = wsEvents
  /\ pushesLeft = pushes
  /\ failsLeft = fails
  /\ answersLeft = answers
  /\ nextHash = 1
  /\ fwdExit = "none"
  /\ tally = NoTally

\* The websocket's events touch nothing the two workers read or write (the
\* 'error' handler logs, the 'close' handler arms the exit timer), and after
\* process.exit nothing runs; so a behaviour has either a websocket that
\* stays open, or one that raises events beside a short feed.
InitTransport == InitWith(WsPushes, 0, WsPushes, MaxWsEvents)

\* (a behaviour needs no more answers than one per push and per failure)
InitPipeline == InitWith(MaxPushes, MaxFails, MaxPushes + MaxFails, 0)

Init == InitPipeline \/ InitTransport

Next ==
  \/ \E h \in {nextHash} : OnPending(h)
  \/ \E r \in BagToSet(pend) : GateDone(r)
  \/ \E r \in BagToSet(pend), o \in Lookups : GetTransactionDone(r, o)
  \/ \E r \in BagToSet(pend) : BackoffDone(r)
  \/ \E r \in BagToSet(pend) : SleepDone(r)
  \/ \E r \in BagToSet(fwd), b \in Balances \cup {Throw} : GetBalanceDone(r, b)
  \/ \E r \in BagToSet(fwd), g \in GasPrices \cup {Throw} : GetGasPriceDone(r, g)
  \/ \E r \in BagToSet(fwd), ok \in BOOLEAN : SendTransactionDone(r, ok)
  \/ \E r \in BagToSet(fwd) : ForwardSleepDone(r)
  \/ OnWsError
  \/ OnWsClose
  \/ ExitTimerDone
  \/ AdvanceTime

Spec == Init /\ [][Next]_vars

InitFetch ==
  \/ InitWith(FetchPushes, FetchFails, FetchPushes + FetchFails, 0)
  \/ InitTransport

SpecFetch == InitFetch /\ [][Next]_vars

\* the state after the feed has delivered hashes 1..100 while the lookup of
\* hash 1, popped by the first call of processPendingQueue, is outstanding
InitFull ==
  /\ pendingQueue = [k \in 1..(QUEUE_CAPACITY - 1) |-> k + 1]
  /\ forwardQueue = <<>>
  /\ processingPending = TRUE
  /\ processingForward = FALSE
  /\ sinceLast = 0
  /\ pend = One(AtFetch(1))
  /\ fwd = EmptyBag
  /\ ws = "open"
  /\ closeTimer = NoTimer
  /\ exited = FALSE
  /\ wsLeft = 0
  /\ pushesLeft = MaxPushes
  /\ failsLeft = MaxFails
  /\ answersLeft = IngestAnswers
  /\ nextHash = QUEUE_CAPACITY + 1
  /\ fwdExit = "none"
  /\ tally = NoTally

InitIngest == Init \/ InitFull

SpecIngest == InitIngest /\ [][Next]_vars

\* the event loop runs every due timer callback and the clock advances
Fairness ==
  /\ WF_vars(AdvanceTime)
  /\ WF_vars(ExitTimerDone)
  /\ WF_vars(\E r \in BagToSet(pend) : GateDone(r))
  /\ WF_vars(\E r \in BagToSet(pend) : BackoffDone(r))
  /\ WF_vars(\E r \in BagToSet(pend) : SleepDone(r))
  /\ WF_vars(\E r \in BagToSet(fwd) : ForwardSleepDone(r))

LiveSpec == InitFetch /\ [][Next]_vars /\ Fairness

\* every call of the chain client settles (it returns or throws)
FairCalls ==
  /\ WF_vars(\E r \in BagToSet(pend), o \in Lookups : GetTransactionDone(r, o))
  /\ WF_vars(\E r \in BagToSet(fwd), b \in Balances \cup {Throw} :
               GetBalanceDone(r, b))
  /\ WF_vars(\E r \in BagToSet(fwd), g \in GasPrices \cup {Throw} :
               GetGasPriceDone(r, g))
  /\ WF_vars(\E r \in BagToSet(fwd), ok \in BOOLEAN :
               SendTransactionDone(r, ok))

\* a feed long enough for two drain loops to run at once, or a shorter one
\* whose lookups fail and are retried, or a websocket that raises events
InitLive == InitWith(LivePushes, 0, LivePushes, 0) \/ InitFetch

LiveSpecCalls == InitLive /\ [][Next]_vars /\ Fairness /\ FairCalls

(* ------------------------------ claims --------------------------------- *)
Pending == BagToSet(pend)
Forwarding == BagToSet(fwd)

\* C1: at most one invocation of processPendingQueue is inside its drain
\* loop (suspended at the lookup, the backoff or the inter-item sleep) at any
\* time.  The code checks processingPending before the rate-gate await and
\* sets it after, so this fails.
C1_OneDrainLoop == CountAt(pend, DrainPcs) <= 1

\* C2: at most one invocation of processForwardQueue is inside its drain
\* loop at any time, however often processPendingQueue calls it.
C2_OneForwardLoop == CountAt(fwd, ForwardPcs) <= 1

\* a forward cycle is running and processForwardQueue was called again
\* while it was suspended
C2_Witness ==
  /\ fwdExit = "signalled"
  /\ CountAt(fwd, ForwardPcs) = 1
  /\ Len(forwardQueue) >= 2

\* C3: pendingQueue never holds more than 100 hashes.
C3_Bounded == Len(pendingQueue) <= QUEUE_CAPACITY

\* the queue is full again after pushes onto a full queue and a pop
C3_Witness ==
  /\ Len(pendingQueue) = QUEUE_CAPACITY
  /\ pushesLeft = 0
  /\ \E r \in Pending : r.pc = "fetch" /\ r.txHash > 2

\* what the claim says a push of h leaves of queue q
AfterPush(q, h) ==
  IF Len(q) < QUEUE_CAPACITY
  THEN [k \in 1..(Len(q) + 1) |-> IF k <= Len(q) THEN q[k] ELSE h]
  ELSE [k \in 1..Len(q) |-> IF k < Len(q) THEN q[k + 1] ELSE h]

\* C4: a push onto a full queue removes exactly the oldest hash and appends
\* the new one, a push onto a queue that is not full removes nothing, and
\* the order of the other hashes is kept.  (The handler goes on to call
\* processPendingQueue, which pops the head for its lookup when it starts a
\* cycle at once: no cycle flagged and the rate gate open.)
C4_EvictsOldest ==
  [][nextHash' # nextHash =>
       LET q == AfterPush(pendingQueue, nextHash)
       IN  IF processingPending \/ sinceLast < MIN_INTERVAL
           THEN pendingQueue' = q
           ELSE /\ pendingQueue' = Tail(q)
                /\ \E r \in BagToSet(pend') :
                     r.pc = "fetch" /\ r.txHash = Head(q)]_vars

\* hashes 2..100 were queued, 101 filled the queue and 102 evicted hash 2
C4_Witness ==
  /\ Len(pendingQueue) = QUEUE_CAPACITY
  /\ Head(pendingQueue) = 3
  /\ pendingQueue[QUEUE_CAPACITY] = QUEUE_CAPACITY + 2

\* C5: a transfer is submitted only with value = balance - gasPrice * 21000
\* of the balance and gas price read in that iteration, and only when that
\* is positive; when it is not, the invocation leaves the loop (clears the
\* flag, keeps the queue) without calling sendTransaction.
C5_SendsPositive ==
  /\ [](\A r \in Forwarding : r.pc = "send" =>
          /\ r.value = r.balance - r.gasPrice * 21000
          /\ r.value > 0)
  /\ [][\A r \in Forwarding, g \in GasPrices :
          (GetGasPriceDone(r, g) /\ r.balance - g * 21000 <= 0) =>
             /\ fwd' = fwd (-) One(r)
             /\ ~processingForward'
             /\ forwardQueue' = forwardQueue]_vars

\* the transfer of 1000000 - 10 * 21000 is being submitted
C5_Witness ==
  \E r \in Forwarding :
    r.pc = "send" /\ r.balance = 1000000 /\ r.gasPrice = 10 /\ r.value = 790000

\* C6: an invocation that reads a balance at or under the dust threshold
\* leaves the loop at once, with the flag cleared and the queue as it was;
\* no invocation gets to the gas price read or the submission with such a
\* balance, and after the exit nothing runs until a detection appends to
\* forwardQueue and starts a new cycle.
C6_DustStopsCycle ==
  /\ [](/\ \A r \in Forwarding :
             r.pc \in {"gasPrice", "send"} => r.balance > DUST_THRESHOLD
        /\ fwdExit = "dust" => (~processingForward /\ fwd = EmptyBag))
  /\ [][/\ \A r \in Forwarding, b \in Balances :
             (GetBalanceDone(r, b) /\ b <= DUST_THRESHOLD) =>
                /\ fwdExit' = "dust"
                /\ forwardQueue' = forwardQueue
        /\ (fwdExit = "dust" /\ fwdExit' # "dust") =>
             /\ Len(forwardQueue') = Len(forwardQueue) + 1
             /\ processingForward']_vars

\* the cycle ended on a low balance with entries left in forwardQueue
C6_Witness ==
  /\ fwdExit = "dust"
  /\ Len(forwardQueue) > 0
  /\ ~processingForward

UpperChar(c) ==
  CASE c = "a" -> "A"
    [] c = "b" -> "B"
    [] c = "c" -> "C"
    [] OTHER -> c

\* a and b are the same address up to the case of their letters
SameIgnoringCase(a, b) ==
  /\ Len(a) = Len(b)
  /\ \A k \in 1..Len(a) : UpperChar(a[k]) = UpperChar(b[k])

\* C7: when a lookup settles, the popped hash is appended to forwardQueue,
\* once, if it resolved to a transaction whose recipient is the monitored
\* address up to case, and forwardQueue is left alone otherwise (another
\* recipient, no recipient, no record, a throw); forwardQueue grows in no
\* other step.
C7_FilterByRecipient ==
  [][/\ answersLeft' # answersLeft =>
          \A r \in Pending, o \in Lookups :
            GetTransactionDone(r, o) =>
              forwardQueue' =
                IF o.kind = "tx" /\ SameIgnoringCase(o.to, EnvMonitoredAddress)
                THEN Append(forwardQueue, r.txHash)
                ELSE forwardQueue
     /\ Len(forwardQueue') > Len(forwardQueue) =>
          (\E r \in Pending, o \in Lookups : GetTransactionDone(r, o))]_vars

\* a hash was detected and queued for forwarding, its invocation now paused
C7_Witness ==
  /\ Len(forwardQueue) > 0
  /\ \E r \in Pending : r.pc = "sleep" /\ r.result = "tx"

\* C8: when safeGetTransaction returns, after k failed lookups, it has made
\* exactly k + 1 lookups, the last of them the successful one, and k < 5.
C8_ReturnsAfterKPlusOne ==
  \A r \in Pending :
    (r.pc = "sleep" /\ r.result = "tx") =>
       r.lookups = r.failed + 1 /\ r.failed < RETRIES

\* safeGetTransaction returned from its last attempt, after 4 failures
C8_Witness ==
  \E r \in Pending :
    r.pc = "sleep" /\ r.result = "tx" /\ r.failed = RETRIES - 1

\* C9: when safeGetTransaction throws, it has made exactly 5 lookups and
\* all 5 failed.
C9_ThrowsAfterRetries ==
  \A r \in Pending :
    (r.pc = "sleep" /\ r.result = "notfound") =>
       r.lookups = RETRIES /\ r.failed = RETRIES

\* safeGetTransaction threw
C9_Witness == \E r \in Pending : r.pc = "sleep" /\ r.result = "notfound"

\* C10: once the websocket has reported an error or has closed, the process
\* eventually exits.  The 'close' handler arms the exit timer, but the
\* 'error' handler only logs: after an error the process runs on for as
\* long as no close arrives, and nothing the program does brings one about.
C10_ErrorOrCloseExits == (ws \in {"errored", "closed"}) ~> exited

\* a step in which an invocation of processPendingQueue enters its drain
\* loop (lines 50-51): its rate-gate timer fires, or a "pending" event finds
\* no cycle flagged and the rate gate open
CycleStarts ==
  \/ \E r \in Pending : GateDone(r)
  \/ nextHash' # nextHash /\ ~PendingBusy /\ ~GateClosed

\* C11: whenever an invocation of processPendingQueue enters its drain loop
\* and records lastPendingProcessTime, at least 2000 have passed since the
\* previous recording.  Several invocations can wait at the rate gate for the
\* same deadline (the flag is only set after the wait), and each of them
\* starts a cycle when its timer fires, so this fails.
C11_CyclesApart == [][CycleStarts => sinceLast = MIN_INTERVAL]_vars

\* C12: pendingQueue is never non-empty while no invocation of
\* processPendingQueue is waiting at the rate gate or inside the drain loop,
\* and every step that clears processingPending leaves pendingQueue empty: a
\* hash pushed during a cycle is popped before the flag is cleared.
C12_NoStrandedHash ==
  /\ [](Len(pendingQueue) > 0 => CountAt(pend, {"gate"} \cup DrainPcs) > 0)
  /\ [][(processingPending /\ ~processingPending') => pendingQueue' = <<>>]_vars

\* hash 3 arrived during the cycle whose loop is now resolving hash 2, which
\* itself arrived while hash 1 was being resolved
C12_Witness ==
  /\ processingPending
  /\ pendingQueue = <<3>>
  /\ pend = One(AtFetch(2))
  /\ sinceLast = ITEM_DELAY

\* C13 as stated: an invocation of processForwardQueue (one cycle: the flag
\* is set when it starts and cleared when it leaves its loop) calls
\* sendTransaction at most once.  The loop submits in every iteration, so a
\* cycle that finds two entries and a sufficient balance twice submits twice.
C13_OneSendPerCycle == \A r \in Forwarding : r.sends <= 1

\* C13, amended: an invocation of processForwardQueue calls sendTransaction
\* at most once per iteration of its loop, that is once per entry it shifts
\* from forwardQueue: its calls never outnumber its shifts, but for the call
\* that is in progress.
C13_OneSendPerEntry ==
  \A r \in Forwarding :
    r.sends <= r.pops + (IF r.pc = "send" THEN 1 ELSE 0)

\* one cycle has submitted twice and shifted twice
C13_Witness ==
  /\ processingForward
  /\ \E r \in Forwarding : r.sends = 2 /\ r.pops = 2 /\ r.outcome = "sent"

\* the delays the claim lists, by attempt number 0..4
DelayAfter == <<1500, 3000, 6000, 12000, 24000>>

\* C14: when lookup number i (counting from 0) of a safeGetTransaction call
\* fails, by a throw or by an empty result, the call sleeps 1500 * 2^i before
\* it goes on: 1500, 3000, 6000, 12000, 24000, each longer than the one
\* before.
C14_BackoffDoubles ==
  /\ \A k \in 1..(RETRIES - 1) : DelayAfter[k] < DelayAfter[k + 1]
  /\ [][answersLeft' # answersLeft =>
          \A r \in Pending, o \in Lookups :
            (GetTransactionDone(r, o) /\ o.kind # "tx") =>
               /\ r.i = r.failed
               /\ \E b \in BagToSet(pend') :
                    /\ b.pc = "backoff"
                    /\ b.i = r.i
                    /\ b.timer = DelayAfter[r.i + 1]]_vars

\* the fifth lookup has just failed and its delay of 24000 begins
C14_Witness ==
  \E r \in Pending :
    r.pc = "backoff" /\ r.i = 4 /\ r.failed = 5 /\ r.timer = 24000

\* C15: when a submission settles, failed or not, the invocation shifts
\* exactly one entry from forwardQueue and appends none, keeps the flag set
\* and sleeps 1000; when that sleep ends and forwardQueue holds an entry, it
\* reads the balance again.
C15_FailedSendGoesOn ==
  [][fwd' # fwd =>
       /\ \A r \in Forwarding, ok \in BOOLEAN :
            SendTransactionDone(r, ok) =>
               /\ Len(forwardQueue) > 0
               /\ forwardQueue' = Tail(forwardQueue)
               /\ processingForward /\ processingForward'
               /\ \E b \in BagToSet(fwd') :
                    /\ b.pc = "sleep"
                    /\ b.timer = FORWARD_DELAY
                    /\ b.outcome = IF ok THEN "sent" ELSE "failed"
       /\ \A r \in Forwarding :
            (/\ ForwardSleepDone(r)
             /\ r.outcome \in {"sent", "failed"}
             /\ Len(forwardQueue) > 0) =>
               /\ processingForward'
               /\ forwardQueue' = forwardQueue
               /\ \E b \in BagToSet(fwd') : b.pc = "balance"]_vars

\* a submission failed, one entry was shifted and one is left, the flag is
\* still set and the sleep before the next iteration has run out
C15_Witness ==
  /\ processingForward
  /\ Len(forwardQueue) > 0
  /\ \E r \in Forwarding :
       r.pc = "sleep" /\ r.outcome = "failed" /\ r.timer = 0 /\ r.pops = 1

\* C16: when the last backoff of a safeGetTransaction call ends (5 lookups
\* failed), the invocation appends nothing to forwardQueue, stays in its loop
\* and sleeps 500; when that sleep ends it pops the next hash of
\* pendingQueue and looks it up, or, pendingQueue being empty, clears the
\* flag and returns.
C16_ExhaustedFetchGoesOn ==
  [][pend' # pend =>
       /\ \A r \in Pending :
            (BackoffDone(r) /\ r.failed = RETRIES) =>
               /\ forwardQueue' = forwardQueue
               /\ pendingQueue' = pendingQueue
               /\ processingPending' = processingPending
               /\ \E b \in BagToSet(pend') :
                    /\ b.pc = "sleep"
                    /\ b.timer = ITEM_DELAY
                    /\ b.result = "notfound"
       /\ \A r \in Pending :
            (SleepDone(r) /\ r.result = "notfound") =>
               /\ forwardQueue' = forwardQueue
               /\ IF Len(pendingQueue) > 0
                  THEN /\ pendingQueue' = Tail(pendingQueue)
                       /\ processingPending' = processingPending
                       /\ \E b \in BagToSet(pend') :
                            b.pc = "fetch" /\ b.txHash = Head(pendingQueue)
                  ELSE /\ pend' = pend (-) One(r)
                       /\ ~processingPending']_vars

\* hash 1 was given up after 5 failed lookups and skipped; the sleep before
\* the loop pops hash 2 has run out
C16_Witness ==
  /\ processingPending
  /\ pendingQueue = <<2>>
  /\ forwardQueue = <<>>
  /\ \E r \in Pending : r.pc = "sleep" /\ r.result = "notfound" /\ r.timer = 0

\* the hashes of queue q are in the order they arrived in (the feed numbers
\* them by arrival)
InArrivalOrder(q) == \A j, k \in 1..Len(q) : j < k => q[j] < q[k]

\* C17: pendingQueue keeps its hashes in arrival order, every hash a drain
\* loop is resolving (lookup outstanding, or backing off between lookups) is
\* older than every hash still in pendingQueue, and so is every hash a
\* lookup's match appends to forwardQueue; the hash a loop pops is the
\* oldest one queued.
C17_OldestFirst ==
  /\ [](/\ InArrivalOrder(pendingQueue)
        /\ \A r \in Pending :
             r.pc \in {"fetch", "backoff"} =>
                \A k \in 1..Len(pendingQueue) : r.txHash < pendingQueue[k])
  /\ [][/\ Len(forwardQueue') > Len(forwardQueue) =>
             \A k \in 1..Len(pendingQueue') :
                forwardQueue'[Len(forwardQueue')] < pendingQueue'[k]
        /\ (nextHash' = nextHash /\ pendingQueue' # pendingQueue) =>
             /\ pendingQueue' = Tail(pendingQueue)
             /\ \E b \in BagToSet(pend') :
                  /\ b.pc = "fetch"
                  /\ b.txHash = Head(pendingQueue)
                  /\ \A k \in 1..Len(pendingQueue) :
                       b.txHash <= pendingQueue[k]]_vars

\* hash 2 was evicted; the loop resolved hash 3, the oldest hash retained,
\* and is now resolving hash 4 with hashes 5..102 queued behind it
C17_Witness ==
  /\ Len(pendingQueue) = QUEUE_CAPACITY - 2
  /\ Head(pendingQueue) = 5
  /\ pendingQueue[Len(pendingQueue)] = QUEUE_CAPACITY + 2
  /\ \E r \in Pending : r.pc = "fetch" /\ r.txHash = 4

\* a step in which an invocation of processForwardQueue breaks out of its
\* loop: the balance it read is at or under the dust threshold (line 103), or
\* does not exceed the fee (line 87)
BreaksOut ==
  \/ \E r \in Forwarding, b \in Balances :
       GetBalanceDone(r, b) /\ b <= DUST_THRESHOLD
  \/ \E r \in Forwarding, g \in GasPrices :
       GetGasPriceDone(r, g) /\ r.balance - g * GAS_LIMIT <= 0

\* C18 as stated: processingForward is false at startup and goes from true
\* to false only when forwardQueue is empty, so forwardQueue is empty
\* whenever processingForward is false.  The two breaks clear the flag with
\* the queue as it is.
C18_IdleMeansEmpty ==
  /\ ~processingForward
  /\ [][(processingForward /\ ~processingForward') =>
          forwardQueue' = <<>>]_vars
  /\ [](~processingForward => forwardQueue = <<>>)

\* C18, amended: processingForward is false at startup and goes from true to
\* false only when forwardQueue is empty or the invocation breaks out of its
\* loop on a balance at or under the dust threshold or one that does not
\* exceed the fee; forwardQueue is empty whenever processingForward is false
\* and the latest cycle did not end by such a break.
C18_IdleOrBrokeOut ==
  /\ ~processingForward
  /\ [][(processingForward /\ ~processingForward') =>
          (forwardQueue' = <<>> \/ BreaksOut)]_vars
  /\ []((~processingForward /\ fwdExit \notin {"dust", "gas"}) =>
          forwardQueue = <<>>)

\* two detections were queued; one entry was shifted, then a cycle broke out
\* on the fee, which left the flag cleared and the other entry queued
C18_Witness ==
  /\ ~processingForward
  /\ fwd = EmptyBag
  /\ fwdExit = "gas"
  /\ Len(forwardQueue) = 1
  /\ tally.pushed = 2

\* C19 as stated: between two consecutive sendTransaction calls exactly one
\* entry is shifted from forwardQueue, and the calls made never outnumber
\* the hashes pushed to forwardQueue.  An iteration whose getBalance or
\* getGasPrice throws shifts an entry without a call, so two calls can have
\* two shifts between them.
C19_OneShiftBetweenSends ==
  /\ [][tally'.sent # tally.sent => tally.sinceSend \in {NoSend, 1}]_vars
  /\ [](tally.sent <= tally.pushed)

\* C19, amended: between two consecutive sendTransaction calls at least one
\* entry is shifted from forwardQueue, and the calls made never outnumber
\* the hashes pushed to forwardQueue (nor the entries shifted, but for the
\* call whose own shift is still to come).
C19_SendConsumesTrigger ==
  /\ [][tally'.sent # tally.sent =>
          (tally.sinceSend = NoSend \/ tally.sinceSend >= 1)]_vars
  /\ [](/\ tally.sent <= tally.pushed
        /\ tally.sent <= tally.pushed - Len(forwardQueue) + 1)

\* two hashes were pushed and the second submission is in progress, one
\* entry having been shifted since the first
C19_Witness ==
  /\ tally.pushed = 2
  /\ tally.sent = 2
  /\ tally.sinceSend = 0
  /\ Len(forwardQueue) = 1
  /\ \E r \in Forwarding : r.pc = "send"

\* no invocation of either worker is suspended anywhere, both flags are
\* false and pendingQueue is empty
Quiescent ==
  /\ pend = EmptyBag
  /\ fwd = EmptyBag
  /\ ~processingPending
  /\ ~processingForward
  /\ pendingQueue = <<>>

\* C20: with a feed that delivers finitely many hashes, and every chain
\* client call and timer completing, the program comes to rest for good with
\* no invocation suspended, both flags false and pendingQueue empty (or the
\* process has exited, the websocket having closed), also after two drain
\* loops have shared processingPending; and a flag is never set while no
\* invocation of its worker is inside its loop.
C20_ComesToRest ==
  /\ <>[](exited \/ Quiescent)
  /\ [](/\ processingPending => CountAt(pend, DrainPcs) > 0
        /\ processingForward => CountAt(fwd, ForwardPcs) > 0)

\* the three hashes the feed delivered have been worked off, with a
\* detection and a submission among them, and the program is at rest
C20_Witness ==
  /\ Quiescent
  /\ ~exited
  /\ nextHash = LivePushes + 1
  /\ pushesLeft = 0
  /\ answersLeft = 0
  /\ tally.sent > 0

====
